---- MODULE Spec2Model ----
(***************************************************************************)
(* Model of doom_v2.py: engine resolution (find_engine, run_wad), the      *)
(* network acquisition (download_gzdoom), the launch worker and its log,   *)
(* open_log, and the add-on merger (export_mods).                          *)
(***************************************************************************)
EXTENDS Integers, Sequences, FiniteSets, TLC

\* ---------------------------------------------------------------- bounds
MaxClock == 2        \* clock ticks the model follows
MaxLaunches == 2     \* worker threads started over a run
MaxAssets == 2       \* length of the release metadata's asset list
MaxTree == 1         \* files met by the walk of the destination directory
MaxMods == 2         \* add-ons in the listbox

\* ------------------------------------------------------- program constants
ENGINES == <<"gzdoom", "chocolate-doom", "prboom", "zdoom">>
TicksPerSecond == 2  \* clock ticks per second of the '%Y%m%d_%H%M%S' stamp

None == <<>>

Range(s) == {s[i] : i \in 1..Len(s)}
SeqUpTo(S, n) == UNION {[1..k -> S] : k \in 0..n}

VARIABLES
    CURRENT_LOG_FILE, \* the module global: None or a log file name
    now,              \* wall clock, in ticks
    logs,             \* the log files on disk: name -> launches that wrote lines
    lastLog,          \* name of the log file written most recently (None: none yet)
    launch_btn,       \* state of the launch button
    status,           \* text of the status bar
    afterQ,           \* callbacks queued with .after(0, ...) for the main loop
    threads,          \* the launch() workers started so far
    rw,               \* what the last run_wad call saw and did
    opened,           \* what the last open_log call did
    acq,              \* what the last download_gzdoom call saw and did
    listbox,          \* the add-on listbox
    config,           \* the in-memory configuration
    cfgFile,          \* the configuration file on disk
    outFile,          \* the file at the export's output path
    exp               \* what the last export_mods call saw and did

launcherVars == <<CURRENT_LOG_FILE, now, logs, lastLog, launch_btn, afterQ,
                  threads, rw, opened>>
acqVars == <<acq>>
mergeVars == <<listbox, config, cfgFile, outFile, exp>>
vars == <<CURRENT_LOG_FILE, now, logs, lastLog, launch_btn, status, afterQ,
          threads, rw, opened, acq, listbox, config, cfgFile, outFile, exp>>

\* ======================================================================
\* download_gzdoom
\* ======================================================================
Systems == {"Windows", "Darwin", "Linux"}

\* an asset of the metadata: its (lower-cased) name holds the token `plat`
\* and ends in `ext`; its download URL has the same base name
Assets == { [plat |-> "windows", ext |-> ".zip"],
            [plat |-> "windows", ext |-> ".exe"],
            [plat |-> "macos",   ext |-> ".zip"],
            [plat |-> "osx",     ext |-> ".dmg"],
            [plat |-> "linux",   ext |-> ".tar.gz"],
            [plat |-> "linux",   ext |-> ".zip"] }

NoData == [kind |-> "None", nonempty |-> FALSE, assets |-> <<>>]
\* JSON bodies a successful query can deliver: the empty object, or an
\* object with keys and an asset list (empty when the key is absent)
DataValues == {[kind |-> "dict", nonempty |-> FALSE, assets |-> <<>>]}
              \cup {[kind |-> "dict", nonempty |-> TRUE, assets |-> s] :
                        s \in SeqUpTo(Assets, MaxAssets)}

\* files the walk of the destination directory can meet
TreeFiles == { [name |-> "gzdoom.exe", gz |-> TRUE,  ext |-> ".exe"],
               [name |-> "gzdoom",     gz |-> TRUE,  ext |-> ""],
               [name |-> "gzdoom.pk3", gz |-> TRUE,  ext |-> ".pk3"],
               [name |-> "readme",     gz |-> FALSE, ext |-> ""] }

AcqInputs ==
    { [system |-> s, query |-> q, data |-> d, dl |-> dl, ex |-> ex, tree |-> t] :
        s \in Systems, q \in {"http404", "http_other", "exception"},
        d \in {NoData}, dl \in {"ok", "http_error", "error"},
        ex \in BOOLEAN, t \in SeqUpTo(TreeFiles, MaxTree) }
    \cup
    { [system |-> s, query |-> q, data |-> d, dl |-> dl, ex |-> ex, tree |-> t] :
        s \in Systems, q \in {"ok"},
        d \in DataValues, dl \in {"ok", "http_error", "error"},
        ex \in BOOLEAN, t \in SeqUpTo(TreeFiles, MaxTree) }

NoUrl == [src |-> "none", plat |-> "", ext |-> ""]

\* `if data:` -- None and the empty object are both false
Truthy(d) == d.kind = "dict" /\ d.nonempty

AssetMatches(system, a) ==
    \/ system = "Windows" /\ a.plat = "windows" /\ a.ext = ".zip"
    \/ system = "Darwin" /\ a.plat \in {"macos", "osx"}
    \/ system = "Linux" /\ a.plat = "linux" /\ a.ext = ".tar.gz"

RECURSIVE SelectAsset(_, _, _)
SelectAsset(system, assets, i) ==
    IF i > Len(assets) THEN NoUrl
    ELSE IF AssetMatches(system, assets[i])
         THEN [src |-> "api", plat |-> assets[i].plat, ext |-> assets[i].ext]
         ELSE SelectAsset(system, assets, i + 1)

FallbackUrl(system) ==
    IF system = "Windows" THEN [src |-> "fallback", plat |-> "windows", ext |-> ".zip"]
    ELSE IF system = "Darwin" THEN [src |-> "fallback", plat |-> "macos", ext |-> ".zip"]
    ELSE [src |-> "fallback", plat |-> "amd64", ext |-> ".deb"]

ExeMatches(f) == f.gz /\ (f.ext = ".exe" \/ f.ext = "")

RECURSIVE LocateExe(_, _)
LocateExe(tree, i) ==
    IF i > Len(tree) THEN None
    ELSE IF ExeMatches(tree[i]) THEN <<"engines/gzdoom", tree[i].name>>
         ELSE LocateExe(tree, i + 1)

AcqResult(in, ret, dialog, url, downloaded, extracted, searched) ==
    [done |-> TRUE, pending |-> FALSE, in |-> in, ret |-> ret, dialog |-> dialog, url |-> url,
     fallback |-> (url.src = "fallback"), downloaded |-> downloaded,
     extracted |-> extracted, searched |-> searched]

\* what follows the download: extraction by archive kind, then the search
IsDiskImage_Never(ext) == FALSE
IsDiskImage(ext) == ext = ".dmg"

AfterDownload(in, url) ==
    IF url.ext \in {".zip", ".tar.gz"} /\ ~in.ex
    THEN AcqResult(in, None, <<"Extraction Failed", "Could not extract GZDoom">>,
                   url, TRUE, TRUE, FALSE)
    ELSE IF ~(url.ext \in {".zip", ".tar.gz"}) /\ IsDiskImage(url.ext)
    THEN AcqResult(in, None, <<"Manual Step Required", url.plat, url.ext>>,
                   url, TRUE, FALSE, FALSE)
    ELSE LET exe == LocateExe(in.tree, 1) IN
         AcqResult(in, exe,
                   IF exe = None
                   THEN <<"Error", "GZDoom executable not found after extraction.">>
                   ELSE None,
                   url, TRUE, url.ext \in {".zip", ".tar.gz"}, TRUE)

download_gzdoom(in) ==
    IF in.query \in {"http_other", "exception"}
    THEN AcqResult(in, None, <<"Download Failed", "Could not fetch GZDoom releases">>,
                   NoUrl, FALSE, FALSE, FALSE)
    ELSE LET data == IF in.query = "ok" THEN in.data ELSE NoData
             url == IF Truthy(data) THEN SelectAsset(in.system, data.assets, 1)
                    ELSE FallbackUrl(in.system)
         IN IF url = NoUrl
            THEN AcqResult(in, None,
                           <<"Download Failed", "No suitable GZDoom build found for your platform.">>,
                           url, FALSE, FALSE, FALSE)
            ELSE IF in.dl # "ok"
            THEN AcqResult(in, None, <<"Download Failed", in.dl>>,
                           url, TRUE, FALSE, FALSE)
            ELSE AfterDownload(in, url)

AcqReturns == {download_gzdoom(in).ret : in \in AcqInputs}

NoAcq == [done |-> FALSE, pending |-> FALSE, in |-> None, ret |-> None, dialog |-> None, url |-> NoUrl,
          fallback |-> FALSE, downloaded |-> FALSE, extracted |-> FALSE,
          searched |-> FALSE]

\* ======================================================================
\* find_engine, run_wad, the launch() worker, open_log
\* ======================================================================
Choices == {"Auto"} \cup Range(ENGINES)              \* the engine OptionMenu
Customs == {None, <<"custom", "exists">>, <<"custom", "missing">>}
\* sets of names shutil.which resolves at the time of a call
PathStates == { {}, {"zdoom"}, {"chocolate-doom", "zdoom"}, {"prboom"},
                {"gzdoom", "prboom"}, Range(ENGINES) }

\* what a run_wad call meets: the custom engine entry, the engine menu, the
\* search path, and (when no name of ENGINES resolves) the user's reply to the
\* download prompt and what the download returns after a yes
RunInputs ==
    { [custom |-> c, choice |-> "Auto", onPath |-> p, answer |-> FALSE, dlRet |-> None] :
        c \in Customs \ {None}, p \in PathStates }
    \cup
    { [custom |-> None, choice |-> ch, onPath |-> p, answer |-> FALSE, dlRet |-> None] :
        ch \in Choices, p \in PathStates }
    \cup
    { [custom |-> None, choice |-> "Auto", onPath |-> p, answer |-> TRUE, dlRet |-> r] :
        p \in {q \in PathStates : q \cap Range(ENGINES) = {}}, r \in AcqReturns }

\* the '%Y%m%d_%H%M%S' stamp has one-second resolution
strftime(t) == t \div TicksPerSecond
LogName(t) == <<"doom_log", strftime(t)>>
LogNames == {LogName(t) : t \in 0..(MaxClock + 1)}

which(name, onPath) == IF name \in onPath THEN <<"PATH", name>> ELSE None

RECURSIVE ScanWhich_Last(_, _, _)
ScanWhich_Last(names, i, onPath) ==
    IF i > Len(names) THEN None
    ELSE LET later == ScanWhich_Last(names, i + 1, onPath) IN
         IF later # None THEN later ELSE which(names[i], onPath)

\* the for loop of find_engine: the first name shutil.which resolves
RECURSIVE ScanWhich(_, _, _)
ScanWhich(names, i, onPath) ==
    IF i > Len(names) THEN None
    ELSE IF which(names[i], onPath) # None THEN which(names[i], onPath)
         ELSE ScanWhich(names, i + 1, onPath)

find_engine_IgnoreAnswer(engine_names, onPath, answer, dlRet) ==
    LET path == ScanWhich(engine_names, 1, onPath) IN
    IF path # None
    THEN [ret |-> path, prompted |-> FALSE, downloaded |-> FALSE]
    ELSE [ret |-> dlRet, prompted |-> TRUE, downloaded |-> TRUE]

\* answer: the user's reply to askyesno; dlRet: what download_gzdoom returns
find_engine(engine_names, onPath, answer, dlRet) ==
    LET path == ScanWhich(engine_names, 1, onPath) IN
    IF path # None
    THEN [ret |-> path, prompted |-> FALSE, downloaded |-> FALSE]
    ELSE IF answer
         THEN [ret |-> dlRet, prompted |-> TRUE, downloaded |-> TRUE]
         ELSE [ret |-> None, prompted |-> TRUE, downloaded |-> FALSE]

determine_engine_CheckOverride(custom, choice, onPath, answer, dlRet) ==
    IF custom = <<"custom", "exists">>
    THEN [branch |-> "custom", engine |-> custom, prompted |-> FALSE,
          downloaded |-> FALSE, dialog |-> None]
    ELSE LET r == find_engine(ENGINES, onPath, answer, dlRet) IN
         [branch |-> "auto", engine |-> r.ret, prompted |-> r.prompted,
          downloaded |-> r.downloaded, dialog |-> None]

\* "Determine engine" in run_wad
determine_engine(custom, choice, onPath, answer, dlRet) ==
    IF custom # None
    THEN [branch |-> "custom", engine |-> custom, prompted |-> FALSE,
          downloaded |-> FALSE, dialog |-> None]
    ELSE IF choice # "" /\ choice # "Auto"
    THEN LET p == which(choice, onPath) IN
         [branch |-> "choice", engine |-> p, prompted |-> FALSE,
          downloaded |-> FALSE,
          dialog |-> IF p = None THEN <<"Error", "Engine not found on PATH.">> ELSE None]
    ELSE LET r == find_engine(ENGINES, onPath, answer, dlRet) IN
         [branch |-> "auto", engine |-> r.ret, prompted |-> r.prompted,
          downloaded |-> r.downloaded, dialog |-> None]

\* log(): append a line to the file the global names NOW; a failed open is
\* swallowed
isfile(f) == f # None /\ logs[f] # {}
LogWrite(who, ok) ==
    IF ok
    THEN /\ logs' = [logs EXCEPT ![CURRENT_LOG_FILE'] = @ \cup {who}]
         /\ lastLog' = CURRENT_LOG_FILE'
    ELSE UNCHANGED <<logs, lastLog>>

\* rw and opened hold the call that has just returned; any other step clears them
NoOpen == [target |-> None, dialog |-> None]
NoCall == [branch |-> "none", custom |-> None, choice |-> "Auto", onPath |-> {},
           answer |-> FALSE, dlRet |-> None, engine |-> None,
           prompted |-> FALSE, downloaded |-> FALSE, dialog |-> None,
           thread |-> 0]

RunWadReturn(branch, dialog) ==
    /\ rw' = [NoCall EXCEPT !.branch = branch, !.dialog = dialog]
    /\ UNCHANGED <<logs, lastLog, launch_btn, status, threads>>

\* the launch button's command; Tk ignores a click or invoke() on a disabled
\* button
RunWad ==
    /\ launch_btn = "normal"
    /\ CURRENT_LOG_FILE' = LogName(now)
    /\ opened' = NoOpen
    /\ UNCHANGED <<now, afterQ, acqVars, mergeVars>>
    /\ \E wad_isfile \in BOOLEAN, mods_isfile \in SeqUpTo(BOOLEAN, 1) :
         \/ /\ ~wad_isfile
            /\ RunWadReturn("wad_missing", <<"Error", "WAD file not found.">>)
         \/ /\ wad_isfile
            /\ \E i \in 1..Len(mods_isfile) : ~mods_isfile[i]
            /\ RunWadReturn("mod_missing", <<"Error", "Mod file not found.">>)
         \/ /\ wad_isfile
            /\ \A i \in 1..Len(mods_isfile) : mods_isfile[i]
            /\ \E in \in RunInputs :
                 LET d == determine_engine(in.custom, in.choice, in.onPath,
                                           in.answer, in.dlRet)
                     call == [branch |-> d.branch, custom |-> in.custom,
                              choice |-> in.choice, onPath |-> in.onPath,
                              answer |-> in.answer, dlRet |-> in.dlRet,
                              engine |-> d.engine, prompted |-> d.prompted,
                              downloaded |-> d.downloaded, dialog |-> d.dialog,
                              thread |-> 0]
                 IN IF d.engine = None
                    THEN /\ rw' = call
                         /\ UNCHANGED <<logs, lastLog, launch_btn, status, threads>>
                    ELSE /\ Len(threads) < MaxLaunches
                         /\ rw' = [call EXCEPT !.thread = Len(threads) + 1]
                         /\ \E ok \in BOOLEAN : LogWrite(Len(threads) + 1, ok)
                         /\ status' = "Launching..."
                         /\ launch_btn' = "disabled"
                         /\ threads' = Append(threads,
                                              [pc |-> "popen", proc |-> "none",
                                               own |-> CURRENT_LOG_FILE',
                                               cmd_ok |-> d.engine # <<"custom", "missing">>])

\* ---- launch(), on its own thread ----
WorkerLog(t, ok) ==
    /\ CURRENT_LOG_FILE' = CURRENT_LOG_FILE
    /\ LogWrite(t, ok)

Frame ==
    /\ rw' = NoCall
    /\ opened' = NoOpen
    /\ UNCHANGED <<now, launch_btn, status, acqVars, mergeVars>>

\* subprocess.Popen(...): started, or an exception (then log + showerror)
WorkerPopen(t) ==
    /\ threads[t].pc = "popen"
    /\ \/ /\ threads[t].cmd_ok
          /\ threads' = [threads EXCEPT ![t].pc = "stream", ![t].proc = "running"]
          /\ UNCHANGED <<CURRENT_LOG_FILE, logs, lastLog>>
       \/ /\ threads' = [threads EXCEPT ![t].pc = "errdialog"]
          /\ \E ok \in BOOLEAN : WorkerLog(t, ok)
    /\ UNCHANGED afterQ
    /\ Frame

\* for line in proc.stdout: log(line.strip())
WorkerLine(t) ==
    /\ threads[t].pc = "stream"
    /\ threads[t].proc = "running"
    /\ \E ok \in BOOLEAN : WorkerLog(t, ok)
    /\ UNCHANGED <<threads, afterQ>>
    /\ Frame

\* reading a line raises (text=True decodes strictly): the except branch
\* runs while the subprocess is still alive
WorkerReadError(t) ==
    /\ threads[t].pc = "stream"
    /\ threads[t].proc = "running"
    /\ threads' = [threads EXCEPT ![t].pc = "errdialog"]
    /\ \E ok \in BOOLEAN : WorkerLog(t, ok)
    /\ UNCHANGED afterQ
    /\ Frame

\* the engine terminates and its output stream closes
ProcExit(t) ==
    /\ threads[t].proc = "running"
    /\ threads' = [threads EXCEPT ![t].proc = "exited"]
    /\ UNCHANGED <<CURRENT_LOG_FILE, logs, lastLog, afterQ>>
    /\ Frame

\* end of the stream: proc.wait(); log("Process finished.")
WorkerFinish(t) ==
    /\ threads[t].pc = "stream"
    /\ threads[t].proc = "exited"
    /\ threads' = [threads EXCEPT ![t].pc = "fin_status"]
    /\ \E ok \in BOOLEAN : WorkerLog(t, ok)
    /\ UNCHANGED afterQ
    /\ Frame

\* messagebox.showerror("Launch Failed", ...) returns
WorkerDialogClosed(t) ==
    /\ threads[t].pc = "errdialog"
    /\ threads' = [threads EXCEPT ![t].pc = "fin_status"]
    /\ UNCHANGED <<CURRENT_LOG_FILE, logs, lastLog, afterQ>>
    /\ Frame

\* finally: status_label.after(0, ...)
WorkerFinallyStatus(t) ==
    /\ threads[t].pc = "fin_status"
    /\ threads' = [threads EXCEPT ![t].pc = "fin_btn"]
    /\ afterQ' = Append(afterQ, "status_ready")
    /\ UNCHANGED <<CURRENT_LOG_FILE, logs, lastLog>>
    /\ Frame

\* finally: launch_btn.after(0, ...); the thread ends
WorkerFinallyBtn(t) ==
    /\ threads[t].pc = "fin_btn"
    /\ threads' = [threads EXCEPT ![t].pc = "done"]
    /\ afterQ' = Append(afterQ, "btn_normal")
    /\ UNCHANGED <<CURRENT_LOG_FILE, logs, lastLog>>
    /\ Frame

\* the main loop runs the oldest queued callback
MainLoopAfter ==
    /\ afterQ # <<>>
    /\ afterQ' = Tail(afterQ)
    /\ IF Head(afterQ) = "status_ready"
       THEN status' = "Ready" /\ UNCHANGED launch_btn
       ELSE launch_btn' = "normal" /\ UNCHANGED status
    /\ rw' = NoCall
    /\ opened' = NoOpen
    /\ UNCHANGED <<CURRENT_LOG_FILE, now, logs, lastLog, threads,
                   acqVars, mergeVars>>

Tick ==
    /\ now < MaxClock
    /\ now' = now + 1
    /\ rw' = NoCall
    /\ opened' = NoOpen
    /\ UNCHANGED <<CURRENT_LOG_FILE, logs, lastLog, launch_btn, status, afterQ,
                   threads, acqVars, mergeVars>>

\* the file open_log hands to the platform's opener (None: the info dialog)
OpenLogTarget ==
    IF CURRENT_LOG_FILE # None /\ isfile(CURRENT_LOG_FILE)
    THEN CURRENT_LOG_FILE ELSE None

OpenLog ==
    /\ opened' = [target |-> OpenLogTarget,
                  dialog |-> IF OpenLogTarget = None
                             THEN <<"Info", "No log file available yet.">>
                             ELSE None]
    /\ rw' = NoCall
    /\ UNCHANGED <<CURRENT_LOG_FILE, now, logs, lastLog, launch_btn, status,
                   afterQ, threads, acqVars, mergeVars>>

\* ---- download_gzdoom as an operation of its own ----
DownloadGzdoom ==
    /\ acq.pending
    /\ acq' = download_gzdoom(acq.in)
    /\ UNCHANGED <<launcherVars, status, mergeVars>>

\* ======================================================================
\* save_config, add_mods, remove_selected, export_mods
\* ======================================================================
\* add-on files on disk; the content of a file is named by its path
AddOnPaths == { [dir |-> "a", stem |-> "m", ext |-> ".wad"],
                [dir |-> "b", stem |-> "m", ext |-> ".wad"],
                [dir |-> "a", stem |-> "n", ext |-> ".deh"],
                [dir |-> "a", stem |-> "p", ext |-> ".PK3"],
                [dir |-> "b", stem |-> "z", ext |-> ".zip"] }

\* str.lower() on the extensions in use
Lower(ext) == IF ext = ".PK3" THEN ".pk3" ELSE ext

basename(p) == <<p.stem, p.ext>>
dirname(p) == p.dir
ContentOf(p) == <<p.dir, p.stem, p.ext>>

\* members of the archives among AddOnPaths: entry name and content
ZipEntries(p) ==
    IF p.stem = "p"
    THEN { [name |-> <<"m", ".wad">>, content |-> <<"p.PK3", "m", ".wad">>],
           [name |-> <<"maps/e1", ".lmp">>, content |-> <<"p.PK3", "maps/e1", ".lmp">>] }
    ELSE { [name |-> <<"maps/e1", ".lmp">>, content |-> <<"z.zip", "maps/e1", ".lmp">>] }

IsArchive(p) == Lower(p.ext) \in {".zip", ".pk3"}

StagePut_KeepFirst(stage, e) ==
    IF \E x \in stage : x.name = e.name THEN stage ELSE stage \cup {e}

\* writing a file into the staging directory replaces one of the same name
StagePut(stage, e) == {x \in stage : x.name # e.name} \cup {e}

RECURSIVE StagePutAll(_, _)
StagePutAll(stage, es) ==
    IF es = {} THEN stage
    ELSE LET e == CHOOSE x \in es : TRUE IN
         StagePutAll(StagePut(stage, e), es \ {e})

\* one round of the staging loop
StageOne(stage, p) ==
    IF IsArchive(p) THEN StagePutAll(stage, ZipEntries(p))
    ELSE StagePut(stage, [name |-> basename(p), content |-> ContentOf(p)])

RECURSIVE StageAll(_, _, _)
StageAll(mods, i, stage) ==
    IF i > Len(mods) THEN stage
    ELSE StageAll(mods, i + 1, StageOne(stage, mods[i]))

\* where the try block can raise: creating the staging directory, staging
\* add-on k, opening the output archive, writing an entry into it
FailPoints(mods) ==
    {<<"none", 0>>, <<"tempdir", 0>>, <<"open", 0>>, <<"write", 0>>}
    \cup {<<"stage", k>> : k \in 1..Len(mods)}

\* no file at the output path
NoFile == [kind |-> "absent", entries |-> {}]

TryResult(ok, phase, out) == [ok |-> ok, phase |-> phase, out |-> out]

export_try_OpenFirst(mods, fail, old, written) ==
    IF fail[1] \in {"tempdir", "open"} THEN TryResult(FALSE, "staging", old)
    ELSE IF fail[1] = "stage"
    THEN TryResult(FALSE, "staging", [kind |-> "partial", entries |-> {}])
    ELSE IF fail[1] = "write"
    THEN TryResult(FALSE, "writing", [kind |-> "partial", entries |-> written])
    ELSE TryResult(TRUE, "done",
                   [kind |-> "archive", entries |-> StageAll(mods, 1, {})])

\* the try block of export_mods. old: the file at out_path before the call;
\* written: the entries already in the archive when a write raises
export_try(mods, fail, old, written) ==
    IF fail[1] \in {"tempdir", "stage", "open"}
    THEN TryResult(FALSE, "staging", old)
    ELSE IF fail[1] = "write"
    THEN TryResult(FALSE, "writing", [kind |-> "partial", entries |-> written])
    ELSE TryResult(TRUE, "done",
                   [kind |-> "archive", entries |-> StageAll(mods, 1, {})])

NoMods_Never(mods) == FALSE
\* `if not mods`
NoMods(mods) == mods = <<>>

\* exp holds the export_mods call that has just returned; any other step
\* clears it
NoExp == [result |-> "none", mods |-> <<>>, asked |-> FALSE, saved |-> FALSE,
          phase |-> "none", dialog |-> None]

\* the configuration without remembered directories ("": key absent)
NoConfig == [last_export_dir |-> "", last_mod_dir |-> ""]

\* json.dump into CONFIG_FILE; a failure is a warning and the file keeps its
\* content
save_config(ok) == cfgFile' = IF ok THEN config' ELSE cfgFile

ExportMods ==
    /\ UNCHANGED <<listbox, launcherVars, acqVars>>
    /\ IF NoMods(listbox)
       THEN /\ exp' = [NoExp EXCEPT !.result = "nothing",
                                    !.dialog = <<"Info", "No mods to export.">>]
            /\ UNCHANGED <<config, cfgFile, outFile, status>>
       ELSE \E chosen \in BOOLEAN :
              IF ~chosen
              THEN /\ exp' = [NoExp EXCEPT !.result = "cancelled", !.mods = listbox,
                                           !.asked = TRUE]
                   /\ UNCHANGED <<config, cfgFile, outFile, status>>
              ELSE /\ config' = [config EXCEPT !.last_export_dir = "outdir"]
                   /\ \E ok \in BOOLEAN : save_config(ok)
                   /\ \E fail \in FailPoints(listbox) :
                      \E written \in (IF fail[1] = "write"
                                      THEN (SUBSET StageAll(listbox, 1, {}))
                                               \ {StageAll(listbox, 1, {})}
                                      ELSE {{}}) :
                        LET r == export_try(listbox, fail, outFile, written) IN
                        /\ outFile' = r.out
                        /\ exp' = [result |-> IF r.ok THEN "ok" ELSE "failed",
                                   mods |-> listbox, asked |-> TRUE, saved |-> TRUE,
                                   phase |-> r.phase,
                                   dialog |-> IF r.ok THEN <<"Success", "exported">>
                                              ELSE <<"Error", fail[1]>>]
                   /\ status' = "Ready"

RECURSIVE InsertNew(_, _, _)
InsertNew(lb, paths, i) ==
    IF i > Len(paths) THEN lb
    ELSE InsertNew(IF paths[i] \in Range(lb) THEN lb ELSE Append(lb, paths[i]),
                   paths, i + 1)

\* the file dialog returns a non-empty selection
AddMods ==
    /\ \E paths \in SeqUpTo(AddOnPaths, 2) :
         /\ paths # <<>>
         /\ Len(InsertNew(listbox, paths, 1)) <= MaxMods
         /\ config' = [config EXCEPT !.last_mod_dir = dirname(paths[1])]
         /\ \E ok \in BOOLEAN : save_config(ok)
         /\ listbox' = InsertNew(listbox, paths, 1)
    /\ exp' = NoExp
    /\ UNCHANGED <<outFile, status, launcherVars, acqVars>>

RECURSIVE DeleteAll(_, _, _)
DeleteAll(lb, sel, i) ==
    IF i = 0 THEN lb
    ELSE DeleteAll(IF i \in sel
                   THEN [k \in 1..(Len(lb) - 1) |-> IF k < i THEN lb[k] ELSE lb[k + 1]]
                   ELSE lb,
                   sel, i - 1)

RemoveSelected ==
    /\ \E sel \in (SUBSET (1..Len(listbox))) \ {{}} :
         listbox' = DeleteAll(listbox, sel, Len(listbox))
    /\ exp' = NoExp
    /\ UNCHANGED <<config, cfgFile, outFile, status, launcherVars, acqVars>>

\* ======================================================================
\* specifications
\* ======================================================================
Init ==
    /\ CURRENT_LOG_FILE = None
    /\ now = 0
    /\ logs = [f \in LogNames |-> {}]
    /\ lastLog = None
    /\ launch_btn = "normal"
    /\ status = "Ready"
    /\ afterQ = <<>>
    /\ threads = <<>>
    /\ rw = NoCall
    /\ opened = NoOpen
    /\ acq = NoAcq
    /\ listbox = <<>>
    /\ config = NoConfig
    /\ cfgFile = NoConfig
    /\ outFile = NoFile
    /\ exp = NoExp

\* the launcher: the GUI's launch and open-log controls, the worker, the clock
Next ==
    \/ RunWad
    \/ \E t \in 1..Len(threads) : WorkerPopen(t)
    \/ \E t \in 1..Len(threads) : WorkerLine(t)
    \/ \E t \in 1..Len(threads) : WorkerReadError(t)
    \/ \E t \in 1..Len(threads) : ProcExit(t)
    \/ \E t \in 1..Len(threads) : WorkerFinish(t)
    \/ \E t \in 1..Len(threads) : WorkerDialogClosed(t)
    \/ \E t \in 1..Len(threads) : WorkerFinallyStatus(t)
    \/ \E t \in 1..Len(threads) : WorkerFinallyBtn(t)
    \/ MainLoopAfter
    \/ OpenLog
    \/ Tick

Spec == Init /\ [][Next]_vars

\* the acquisition on its own: the initial state draws the call's input (the
\* platform, the replies of the network and the content of the destination tree)
AcquireNext == DownloadGzdoom
AcquireInit ==
    /\ \E in \in AcqInputs : acq = [NoAcq EXCEPT !.in = in, !.pending = TRUE]
    /\ CURRENT_LOG_FILE = None
    /\ now = 0
    /\ logs = [f \in LogNames |-> {}]
    /\ lastLog = None
    /\ launch_btn = "normal"
    /\ status = "Ready"
    /\ afterQ = <<>>
    /\ threads = <<>>
    /\ rw = NoCall
    /\ opened = NoOpen
    /\ listbox = <<>>
    /\ config = NoConfig
    /\ cfgFile = NoConfig
    /\ outFile = NoFile
    /\ exp = NoExp
AcquireSpec == AcquireInit /\ [][AcquireNext]_vars

\* the add-on list and its export
MergeNext == AddMods \/ RemoveSelected \/ ExportMods
MergeSpec == Init /\ [][MergeNext]_vars

\* ======================================================================
\* properties
\* ======================================================================
Resolvable(onPath) == {i \in 1..Len(ENGINES) : ENGINES[i] \in onPath}

\* C1: when run_wad searches the preference list (no override, engine
\* "Auto") and at least one name of ENGINES resolves, the engine is the path
\* of the first resolvable name in list order, whatever later names resolve,
\* and there is neither a download prompt nor a download.
C1_FirstResolvableWins ==
    (rw.branch = "auto" /\ Resolvable(rw.onPath) # {}) =>
        /\ \E i \in Resolvable(rw.onPath) :
              /\ \A j \in Resolvable(rw.onPath) : i <= j
              /\ rw.engine = <<"PATH", ENGINES[i]>>
        /\ ~rw.prompted
        /\ ~rw.downloaded

C1_Witness ==
    /\ rw.branch = "auto"
    /\ rw.onPath = {"chocolate-doom", "zdoom"}
    /\ rw.engine = <<"PATH", "chocolate-doom">>
    /\ rw.thread # 0

Determined == rw.branch \in {"custom", "choice", "auto"}

\* C2 (as stated): the override is used exactly when it is set and names an
\* existing executable; in every other case the preference list is searched.
C2_OverrideOnlyIfExisting ==
    Determined =>
        /\ (rw.branch = "custom" <=> rw.custom = <<"custom", "exists">>)
        /\ (rw.custom # <<"custom", "exists">> => rw.branch = "auto")

\* C2 (amended): the override is used exactly when it is set, whether or not
\* it names an existing executable, and also when names of ENGINES resolve;
\* with no override and a named engine only that name is looked up on the
\* search path; the preference list is searched exactly when there is no
\* override and the engine choice is "Auto".
C2_OverrideWheneverSet ==
    Determined =>
        /\ (rw.branch = "custom" <=> rw.custom # None)
        /\ (rw.custom # None => rw.engine = rw.custom /\ rw.thread # 0)
        /\ (rw.branch = "choice" <=> (rw.custom = None /\ rw.choice # "Auto"))
        /\ (rw.branch = "choice" =>
               /\ ~rw.prompted
               /\ rw.engine = (IF rw.choice \in rw.onPath
                               THEN <<"PATH", rw.choice>> ELSE None))
        /\ (rw.branch = "auto" <=> (rw.custom = None /\ rw.choice = "Auto"))

C2_Witness ==
    /\ rw.custom = <<"custom", "missing">>
    /\ Resolvable(rw.onPath) # {}
    /\ rw.engine = <<"custom", "missing">>
    /\ rw.thread # 0
    /\ threads[rw.thread].pc = "popen"

\* C3: when no name of ENGINES resolves, the user is prompted; after a "no"
\* run_wad gets no path, no download is attempted and no engine launch is
\* started; after a "yes" the engine is exactly what the download returns.
C3_PromptDecides ==
    (rw.branch = "auto" /\ Resolvable(rw.onPath) = {}) =>
        /\ rw.prompted
        /\ (~rw.answer =>
               /\ rw.engine = None
               /\ ~rw.downloaded
               /\ rw.thread = 0
               /\ \A t \in 1..Len(threads) : threads[t].pc # "popen")
        /\ (rw.answer =>
               /\ rw.downloaded
               /\ rw.engine = rw.dlRet
               /\ (rw.thread # 0 <=> rw.dlRet # None))

C3_Witness ==
    /\ rw.branch = "auto"
    /\ Resolvable(rw.onPath) = {}
    /\ rw.prompted
    /\ ~rw.answer
    /\ rw.engine = None
    /\ Len(threads) = 1

PlatformOf(system) ==
    IF system = "Windows" THEN "windows"
    ELSE IF system = "Darwin" THEN "macos" ELSE "amd64"

\* C4: the hardcoded fallback release is used only after a "not found" reply
\* of the metadata query: then the fallback URL of the current platform is
\* chosen and downloaded; after a successful query the fallback is never
\* used; after any other failure the acquisition fails without a download.
C4_FallbackOnlyOnNotFound ==
    acq.done =>
        /\ (acq.in.query = "http404" =>
               /\ acq.fallback
               /\ acq.url.plat = PlatformOf(acq.in.system)
               /\ acq.downloaded)
        /\ (acq.in.query = "ok" => ~acq.fallback)
        /\ (acq.in.query \in {"http_other", "exception"} =>
               /\ acq.ret = None
               /\ ~acq.downloaded
               /\ ~acq.fallback)

\* C9: when the downloaded asset is a disk image, the acquisition reports
\* "Manual Step Required" naming the image, returns no path, and neither
\* extracts nor searches for the executable.
C9_DiskImageIsManual ==
    (acq.done /\ acq.downloaded /\ acq.in.dl = "ok" /\ acq.url.ext = ".dmg") =>
        /\ acq.dialog = <<"Manual Step Required", acq.url.plat, acq.url.ext>>
        /\ acq.ret = None
        /\ ~acq.extracted
        /\ ~acq.searched

C9_Witness ==
    /\ acq.done
    /\ acq.in.system = "Darwin"
    /\ acq.url = [src |-> "api", plat |-> "osx", ext |-> ".dmg"]
    /\ acq.in.dl = "ok"
    /\ \E i \in 1..Len(acq.in.tree) : ExeMatches(acq.in.tree[i])
    /\ acq.ret = None

\* C5 (as stated): after a failed export no partial output file is left at
\* the output path.
C5_NoPartialOutput ==
    exp.result = "failed" => outFile.kind # "partial"

\* C5 (amended): a failed export is reported with a reason and the status
\* returns to "Ready"; a failure before the output archive is written
\* (creating the staging directory, extracting or copying an add-on, opening
\* the output) leaves the file at the output path as it was; only a failure
\* while entries are written changes it, and leaves an archive that lacks
\* entries.
C5_FailureBeforeWritingKeepsOutput ==
    [][exp'.result = "failed" =>
          /\ exp'.dialog[1] = "Error"
          /\ Len(exp'.dialog) = 2
          /\ status' = "Ready"
          /\ (exp'.phase = "staging" => outFile' = outFile)
          /\ (outFile' # outFile =>
                 /\ exp'.phase = "writing"
                 /\ outFile'.kind = "partial"
                 /\ outFile'.entries # StageAll(listbox, 1, {}))]_vars

C5_Witness ==
    /\ exp.result = "failed"
    /\ exp.phase = "staging"
    /\ exp.dialog = <<"Error", "stage">>
    /\ outFile.kind = "archive"

PlainOnly(mods) == \A i \in 1..Len(mods) : Lower(mods[i].ext) \notin {".zip", ".pk3"}

\* C6: the archive merged from plain-file add-ons holds exactly one entry per
\* distinct base name, named by it, with the content of the last add-on in
\* input order that carries the name.
C6_LastWriteWins ==
    (exp.result = "ok" /\ PlainOnly(exp.mods)) =>
        /\ outFile.kind = "archive"
        /\ \A e \in outFile.entries :
              \E i \in 1..Len(exp.mods) :
                 /\ e.name = <<exp.mods[i].stem, exp.mods[i].ext>>
                 /\ e.content = ContentOf(exp.mods[i])
                 /\ \A j \in (i + 1)..Len(exp.mods) :
                       <<exp.mods[j].stem, exp.mods[j].ext>> # e.name
        /\ \A i \in 1..Len(exp.mods) :
              \E e \in outFile.entries : e.name = <<exp.mods[i].stem, exp.mods[i].ext>>
        /\ Cardinality(outFile.entries) =
              Cardinality({<<exp.mods[i].stem, exp.mods[i].ext>> : i \in 1..Len(exp.mods)})

C6_Witness ==
    /\ exp.result = "ok"
    /\ exp.mods = << [dir |-> "a", stem |-> "m", ext |-> ".wad"],
                     [dir |-> "b", stem |-> "m", ext |-> ".wad"] >>
    /\ outFile = [kind |-> "archive",
                  entries |-> {[name |-> <<"m", ".wad">>,
                                content |-> <<"b", "m", ".wad">>]}]

\* C8: an export of an empty add-on list reports "nothing to export", asks
\* for no output path, saves no configuration, writes no file and changes
\* nothing else.
C8_EmptyExportIsNoOp ==
    [][(exp'.result # "none" /\ listbox = <<>>) =>
          /\ exp'.result = "nothing"
          /\ exp'.dialog = <<"Info", "No mods to export.">>
          /\ ~exp'.asked
          /\ ~exp'.saved
          /\ UNCHANGED <<listbox, config, cfgFile, outFile, status>>]_vars

C8_Witness ==
    /\ exp.result = "nothing"
    /\ listbox = <<>>
    /\ config.last_mod_dir # ""
    /\ outFile.kind = "archive"

\* C7: once a launch has written a log file, open_log opens the log file of
\* the most recent launch that wrote one, after launch attempts of any kind.
C7_OpenLogFindsMostRecent ==
    lastLog # None => OpenLogTarget = lastLog

Alive == {t \in 1..Len(threads) : threads[t].proc = "running"}
Working == {t \in 1..Len(threads) : threads[t].pc # "done"}

\* C10: from the start of a launch until its subprocess has exited or failed
\* to start the launch button stays disabled, so at most one engine
\* subprocess and one worker exist at a time, and every line a launch logs is
\* written to that launch's own log file.
C10_OneLaunchAtATime ==
    /\ \A t \in 1..Len(threads) :
          (threads[t].pc = "popen" \/ threads[t].proc = "running")
             => launch_btn = "disabled"
    /\ Cardinality(Alive) <= 1
    /\ Cardinality(Working) <= 1
    /\ \A f \in LogNames : \A t \in logs[f] : threads[t].own = f

====
